---- MODULE Spec2Model ----
(***************************************************************************)
(* PDFTableExtractor (src/main.py): the text of a card statement is split  *)
(* into lines, each qualifying line becomes a raw transaction, the raw     *)
(* transactions become the Transaction table (df_o) and the table is       *)
(* aggregated by category into the Summary table (df_resume).              *)
(*                                                                         *)
(* A Python str is a sequence of one-character strings.  Positions are     *)
(* 0-based and slices are half-open, as in Python.  An amount is an        *)
(* integer number of hundredths (13859.00 is 1385900).  An optional value  *)
(* (None, NaN) is the empty sequence, a present value v is <<v>>.          *)
(***************************************************************************)
EXTENDS Integers, Sequences, FiniteSets

\* ------------------------------------------------------------ characters

\* U+2013, the second sign amount_pattern admits; one character.
EnDash == "endash"
\* The line break extract_text appends after every page.
NL == "\n"
\* What indexing past the end of a string yields here: no character.
NoChar == ""

DigitChars == <<"0", "1", "2", "3", "4", "5", "6", "7", "8", "9">>
LowerAlpha == <<"a", "b", "c", "d", "e", "f", "g", "h", "i", "j", "k", "l", "m", "n", "o", "p", "q", "r", "s", "t", "u", "v", "w", "x", "y", "z">>
UpperAlpha == <<"A", "B", "C", "D", "E", "F", "G", "H", "I", "J", "K", "L", "M", "N", "O", "P", "Q", "R", "S", "T", "U", "V", "W", "X", "Y", "Z">>

\* \d
IsDigit(c) == \E k \in 1..10 : DigitChars[k] = c
DigitVal(c) == (CHOOSE k \in 1..10 : DigitChars[k] = c) - 1
\* \s, and what str.strip removes
IsSpace(c) == c \in {" ", "\t", NL}

\* s[i], 0-based, NoChar outside the string
Ch(s, i) == IF i >= 0 /\ i < Len(s) THEN s[i + 1] ELSE NoChar
\* s[a:b] for a >= 0 and b >= 0: an end past the string is its end
Slice(s, a, b) == SubSeq(s, a + 1, IF b > Len(s) THEN Len(s) ELSE b)

upper_char(c) ==
    IF \E k \in 1..26 : LowerAlpha[k] = c
    THEN UpperAlpha[CHOOSE k \in 1..26 : LowerAlpha[k] = c]
    ELSE c
\* str.upper
upper(s) == [k \in 1..Len(s) |-> upper_char(s[k])]

\* k in s
contains(k, s) == \E p \in 0..(Len(s) - Len(k)) : Slice(s, p, p + Len(k)) = k

\* str.strip
strip(s) ==
    LET keep == {i \in 0..(Len(s) - 1) : ~IsSpace(Ch(s, i))}
    IN  IF keep = {} THEN <<>>
        ELSE Slice(s, CHOOSE i \in keep : \A j \in keep : i <= j,
                      (CHOOSE i \in keep : \A j \in keep : i >= j) + 1)

\* str.rfind of one character: the last position, -1 when absent
rfind(s, c) ==
    LET at == {i \in 0..(Len(s) - 1) : Ch(s, i) = c}
    IN  IF at = {} THEN -1 ELSE CHOOSE i \in at : \A j \in at : i >= j

\* str.replace(c, d) for one character c; d is a string
RECURSIVE replace(_, _, _)
replace(s, c, d) ==
    IF s = <<>> THEN <<>>
    ELSE (IF Head(s) = c THEN d ELSE <<Head(s)>>) \o replace(Tail(s), c, d)

\* str.splitlines: the pieces between line breaks, no piece after a final one
RECURSIVE splitlines(_)
splitlines(t) ==
    IF t = <<>> THEN <<>>
    ELSE LET brk == {i \in 0..(Len(t) - 1) : Ch(t, i) = NL}
         IN  IF brk = {} THEN <<t>>
             ELSE LET b == CHOOSE i \in brk : \A j \in brk : i <= j
                  IN  <<Slice(t, 0, b)>> \o splitlines(Slice(t, b + 1, Len(t)))

\* ---------------------------------------------------------------- regexes

\* How many of s[i], s[i+1], ... are digits, counting at most n.
RECURSIVE DigitRun(_, _, _)
DigitRun(s, i, n) ==
    IF n > 0 /\ IsDigit(Ch(s, i)) THEN 1 + DigitRun(s, i + 1, n - 1) ELSE 0

\* The pattern without its year, \d{2}/\d{2}: a variant of date_match_at.
date_match_at_no_year(s, p) ==
    IF DigitRun(s, p, 2) = 2 /\ Ch(s, p + 2) = "/" /\ DigitRun(s, p + 3, 2) = 2
    THEN p + 5
    ELSE -1

\* date_pattern  \d{2}/\d{2}/\d{2,4}  tried at position p: the end of the
\* match (the year takes as many digits as it can, up to four), -1 when none.
date_match_at(s, p) ==
    IF /\ DigitRun(s, p, 2) = 2
       /\ Ch(s, p + 2) = "/"
       /\ DigitRun(s, p + 3, 2) = 2
       /\ Ch(s, p + 5) = "/"
       /\ DigitRun(s, p + 6, 2) = 2
    THEN p + 6 + DigitRun(s, p + 6, 4)
    ELSE -1

NoMatch == [start |-> -1, end |-> -1]
\* date_pattern.search(s): the leftmost match
date_pattern_search(s) ==
    LET at == {p \in 0..(Len(s) - 1) : date_match_at(s, p) >= 0}
    IN  IF at = {} THEN NoMatch
        ELSE LET p == CHOOSE i \in at : \A j \in at : i <= j
             IN  [start |-> p, end |-> date_match_at(s, p)]

RECURSIVE SkipSpaces(_, _)
SkipSpaces(s, i) == IF IsSpace(Ch(s, i)) THEN SkipSpaces(s, i + 1) ELSE i

\* (?:\.\d{3})* from position i: the position after the last group taken
RECURSIVE Thousands(_, _)
Thousands(s, i) ==
    IF Ch(s, i) = "." /\ DigitRun(s, i + 1, 3) = 3
    THEN Thousands(s, i + 4)
    ELSE i

\* amount_pattern  \$\s*([-–]?\d{1,3}(?:\.\d{3})*(?:[.,]\d{2})?)  tried at
\* position p: [start, end) of group 1, NoMatch when the pattern fails.
\* Every part after the first digit is optional and greedy, so the first
\* path the matcher tries succeeds and nothing is given back.
amount_match_at(s, p) ==
    IF Ch(s, p) # "$" THEN NoMatch
    ELSE LET q == SkipSpaces(s, p + 1)
             d == IF Ch(s, q) \in {"-", EnDash} THEN q + 1 ELSE q
             n == DigitRun(s, d, 3)
             t == Thousands(s, d + n)
             e == IF Ch(s, t) \in {".", ","} /\ DigitRun(s, t + 1, 2) = 2
                  THEN t + 3 ELSE t
         IN  IF n = 0 THEN NoMatch ELSE [start |-> q, end |-> e]

\* amount_pattern.findall(s) from position p on: group 1 of every match,
\* left to right, the scan resuming where a match ended.
RECURSIVE findall_from(_, _)
findall_from(s, p) ==
    IF p >= Len(s) THEN <<>>
    ELSE LET m == amount_match_at(s, p)
         IN  IF m.start < 0 THEN findall_from(s, p + 1)
             ELSE <<Slice(s, m.start, m.end)>> \o findall_from(s, m.end)

amount_pattern_findall(s) == findall_from(s, 0)

\* ------------------------------------------------------- the pure methods

Null == <<>>
Some(v) == <<v>>

\* int() of a string of digits
RECURSIVE IntOf(_)
IntOf(ds) ==
    IF ds = <<>> THEN 0
    ELSE 10 * IntOf(SubSeq(ds, 1, Len(ds) - 1)) + DigitVal(ds[Len(ds)])

\* float(t) in hundredths: an optional ASCII sign, digits, and an optional
\* point followed by digits, at least one digit in all; anything else raises
\* ValueError, which is Null here.  The strings amount_pattern captures carry
\* no or two decimals.
parse_float(t) ==
    LET signed == Ch(t, 0) \in {"-", "+"}
        body == IF signed THEN Tail(t) ELSE t
        ip == DigitRun(body, 0, Len(body))
        point == Ch(body, ip) = "."
        fp == IF point THEN DigitRun(body, ip + 1, Len(body)) ELSE 0
        wellformed == /\ ip + fp >= 1
                      /\ ip + (IF point THEN 1 ELSE 0) + fp = Len(body)
        frac == Slice(body, ip + 1, ip + 1 + fp) \o <<"0", "0">>
        mag == 100 * IntOf(Slice(body, 0, ip)) + IntOf(Slice(frac, 0, 2))
    IN  IF ~wellformed THEN Null
        ELSE Some(IF Ch(t, 0) = "-" THEN 0 - mag ELSE mag)

\* convert_amount: with a comma the points are thousands separators and the
\* comma the decimal mark, without one every point is dropped; None when
\* float() raises.
convert_amount(val_str) ==
    IF contains(<<",">>, val_str)
    THEN parse_float(replace(replace(val_str, ".", <<>>), ",", <<".">>))
    ELSE parse_float(replace(val_str, ".", <<>>))

SIN_LUGAR == <<"S", "I", "N", " ", "L", "U", "G", "A", "R">>

exclude_keywords ==
    << <<"T", "O", "T", "A", "L", " ", "O", "P", "E", "R", "A", "C", "I", "O", "N", "E", "S">>,
       <<"M", "O", "N", "T", "O", " ", "C", "A", "N", "C", "E", "L", "A", "D", "O">>,
       <<"M", "O", "V", "I", "M", "I", "E", "N", "T", "O", "S", " ", "T", "A", "R", "J", "E", "T", "A">>,
       <<"P", "A", "G", "A", "R", " ", "H", "A", "S", "T", "A">>,
       <<"F", "A", "C", "T", "U", "R", "A", "D", "O">> >>

\* The validator without .upper(): a variant of transaction_validator.
transaction_validator_no_upper(row) ==
    LET lugar == IF row.LUGAR # <<>> /\ strip(row.LUGAR) # <<>>
                 THEN row.LUGAR ELSE SIN_LUGAR
        combined == lugar \o <<" ">> \o row.DETALLE
    IN  /\ ~\E k \in 1..Len(exclude_keywords) : contains(exclude_keywords[k], combined)
        /\ date_pattern_search(row.DETALLE).start < 0

\* transaction_validator: TRUE for a row that is kept
transaction_validator(row) ==
    LET lugar == IF row.LUGAR # <<>> /\ strip(row.LUGAR) # <<>>
                 THEN row.LUGAR ELSE SIN_LUGAR
        combined == upper(lugar \o <<" ">> \o row.DETALLE)
    IN  IF \E k \in 1..Len(exclude_keywords) : contains(exclude_keywords[k], combined)
        THEN FALSE
        ELSE IF date_pattern_search(row.DETALLE).start >= 0
        THEN FALSE
        ELSE TRUE

\* (\d{1,2})/(\d{1,2})\s*$ tried at position p with n1 and n2 digits
cuotas_match_at(text, p, n1, n2) ==
    /\ DigitRun(text, p, n1) = n1
    /\ Ch(text, p + n1) = "/"
    /\ DigitRun(text, p + n1 + 1, n2) = n2
    /\ SkipSpaces(text, p + n1 + 1 + n2) = Len(text)

\* The widths of (\d{1,3})/(\d{1,2}): a variant of CuotaWidths.
CuotaWidthsThreeDigits ==
    << <<3, 2>>, <<3, 1>>, <<2, 2>>, <<2, 1>>, <<1, 2>>, <<1, 1>> >>

\* The digit counts in the order the matcher tries them: greedy first.
CuotaWidths ==
    << <<2, 2>>, <<2, 1>>, <<1, 2>>, <<1, 1>> >>

\* struct_cuotas: re.search takes the leftmost position that matches and, at
\* it, the first widths that match; (n_cuota, cuota_total) or (nan, nan).
struct_cuotas(text) ==
    LET hits == {p \in 0..(Len(text) - 1) :
                    \E w \in DOMAIN CuotaWidths :
                        cuotas_match_at(text, p, CuotaWidths[w][1], CuotaWidths[w][2])}
    IN  IF hits = {} THEN <<Null, Null>>
        ELSE LET p == CHOOSE i \in hits : \A j \in hits : i <= j
                 ws == {w \in DOMAIN CuotaWidths :
                          cuotas_match_at(text, p, CuotaWidths[w][1], CuotaWidths[w][2])}
                 w == CHOOSE i \in ws : \A j \in ws : i <= j
                 n1 == CuotaWidths[w][1]
                 n2 == CuotaWidths[w][2]
             IN  << Some(IntOf(Slice(text, p, p + n1))),
                    Some(IntOf(Slice(text, p + n1 + 1, p + n1 + 1 + n2))) >>

\* The mapping handle_document passes to PDFTableExtractor, in its order.
group_dict ==
    << << <<"C", "O", "M", "E", "R", "C", "I", "A", "L", " ", "D", "E", "C", "O", "S", "T", "O", "R", "E">>, "DECORACION" >>,
       << <<"M", "E", "R", "C", "A", "D", "O", " ", "P", "A", "G", "O", " ", "4", " ", "T", "C", "O", "M">>, "GYM" >>,
       << <<"U", "B", "E", "R", " ", "E", "A", "T", "S">>, "DELIVERY" >>,
       << <<"U", "B", "E", "R", " ", "T", "R", "I", "P">>, "MOVILIDAD" >>,
       << <<"U", "B", "E", "R">>, "MOVILIDAD" >>,
       << <<"T", "A", "X", "I">>, "MOVILIDAD" >>,
       << <<"R", "A", "P", "P", "I">>, "DELIVERY" >>,
       << <<"N", "I", "U">>, "DELIVERY" >>,
       << <<"M", "E", "D">>, "MEDICO" >>,
       << <<"C", "R", "U", "Z", " ", "V", "E", "R", "D", "E">>, "MEDICO" >>,
       << <<"A", "H", "U", "M">>, "MEDICO" >>,
       << <<"S", "I", "I">>, "SII" >>,
       << <<"S", "O", "D", "I", "M", "A", "C">>, "DECORACION" >>,
       << <<"T", "O", "T", "T", "U", "S">>, "SUPERMERCADO" >>,
       << <<"J", "U", "M", "B", "O">>, "SUPERMERCADO" >>,
       << <<"B", "I", "R", "R", "A">>, "SALIDA/BAR" >>,
       << <<"B", "A", "R">>, "SALIDA/BAR" >>,
       << <<"E", "N", "T", "E", "L">>, "SERVICIOS" >>,
       << <<"A", "G", "U", "A", "S", " ", "C", "O", "R", "D", "I", "L", "L", "E", "R", "A">>, "SUPERMERCADO" >>,
       << <<"P", "L", "A", "Y", "S", "T", "A", "T", "I", "O", "N">>, "SUBSCRIPCION" >>,
       << <<"B", "O", "C", "A", "J", "U", "N", "I", "O", "R", "S">>, "SUBSCRIPCION" >>,
       << <<"N", "E", "T", "F", "L", "I", "X">>, "SUBSCRIPCION" >>,
       << <<"A", "M", "A", "Z", "O", "N">>, "SUBSCRIPCION" >>,
       << <<"A", "P", "P", "L", "E">>, "SUBSCRIPCION" >>,
       << <<"G", "U", "A", "C", "A", "M", "O", "L", "E">>, "DELIVERY" >>,
       << <<"F", "A", "N", "T", "A", "S", "I", "L", "A", "N", "D", "I", "A">>, "SALIDA/BAR" >>,
       << <<"M", "A", "C", "O", "N", "L", "I", "N", "E">>, "SEGURO" >>,
       << <<"L", "A", "T", "A", "M">>, "VUELOS" >>,
       << <<"C", "O", "M", "U", "N", "I", "D", "A", "D", " ", "F", "E", "L", "I", "Z">>, "SERVICIOS" >>,
       << <<"T", "I", "C", "K", "E", "T", " ", "M", "A", "S", "T", "E", "R">>, "SALIDAS/BAR" >>,
       << <<"N", "U", "I", " ", "S", "U", "S", "H", "I">>, "DELIVERY" >> >>

\* The loop of assign_group from entry k on: the first keyword found wins.
RECURSIVE assign_group_from(_, _)
assign_group_from(detalle_upper, k) ==
    IF k > Len(group_dict) THEN "CONSUMO"
    ELSE IF contains(group_dict[k][1], detalle_upper) THEN group_dict[k][2]
    ELSE assign_group_from(detalle_upper, k + 1)

\* The loop without its early return, the last keyword found winning: a
\* variant of assign_group.
assign_group_last_match(detalle) ==
    LET found == {k \in 1..Len(group_dict) : contains(group_dict[k][1], upper(detalle))}
    IN  IF found = {} THEN "CONSUMO"
        ELSE group_dict[CHOOSE k \in found : \A j \in found : k >= j][2]

assign_group(detalle) == assign_group_from(upper(detalle), 1)

\* The quotient num/den rounded to the nearest integer, a tie to the even one
\* (the rounding of format(".0f") and of round()); den > 0.
RoundHalfEven(num, den) ==
    LET q == num \div den
        r == num % den
    IN  IF 2 * r < den THEN q
        ELSE IF 2 * r > den THEN q + 1
        ELSE IF q % 2 = 0 THEN q ELSE q + 1

\* The decimal digits of n >= 0
RECURSIVE DigitsOf(_)
DigitsOf(n) ==
    IF n < 10 THEN <<DigitChars[n + 1]>>
    ELSE DigitsOf(n \div 10) \o <<DigitChars[(n % 10) + 1]>>

\* The digits grouped in threes from the right, the groups joined by sep
RECURSIVE Grouped(_, _)
Grouped(ds, sep) ==
    IF Len(ds) <= 3 THEN ds
    ELSE Grouped(SubSeq(ds, 1, Len(ds) - 3), sep) \o <<sep>>
         \o SubSeq(ds, Len(ds) - 2, Len(ds))

\* resume_currency_format of num hundredths: f"{num:,.0f}" keeps the sign of
\* a negative number that rounds to zero; the swap of "," and "." leaves "."
\* between the groups.
resume_currency_format(num) ==
    LET n == RoundHalfEven(num, 100)
        s == (IF num < 0 THEN <<"-">> ELSE <<>>)
             \o Grouped(DigitsOf(IF n < 0 THEN 0 - n ELSE n), ",")
    IN  <<"$">> \o replace(replace(replace(s, ",", <<"X">>), ".", <<",">>), "X", <<".">>)


\* ------------------------------------------------------------ struct_text

\* Where the last match of the amount pattern starts, not the last "$": a
\* variant of last_dollar_index.
last_amount_index(line) ==
    LET at == {p \in 0..(Len(line) - 1) : amount_match_at(line, p).start >= 0}
    IN  IF at = {} THEN -1 ELSE CHOOSE p \in at : \A q \in at : p >= q

\* line.rfind('$')
last_dollar_index(line) == rfind(line, "$")

\* One pass of the loop of struct_text over a line, the n-th of the text:
\* the raw tuple it appends to self.transactions, if any.  src_line is not a
\* field of the program: it records which line the tuple was read from.
classify_line(line, n) ==
    LET date_match == date_pattern_search(line)
        date_start == date_match.start
        amounts == amount_pattern_findall(line)
    IN  IF ~(contains(<<"$">>, line) /\ date_start >= 0) THEN <<>>
        ELSE IF amounts = <<>> THEN <<>>
        ELSE << [FECHA |-> Slice(line, date_start, date_match.end),
                 LUGAR |-> IF date_start > 0
                           THEN strip(Slice(line, 0, date_start))
                           ELSE SIN_LUGAR,
                 DETALLE |-> strip(Slice(line, date_match.end, last_dollar_index(line))),
                 VALOR |-> amounts[Len(amounts)],
                 src_line |-> n] >>

\* str.contains("CUOTA") without case=False: a variant of fg_cuota.
fg_cuota_case_sensitive(detalle) == IF contains(<<"C", "U", "O", "T", "A">>, detalle) THEN 1 ELSE 0

\* df_o["DETALLE"].str.contains("CUOTA", case=False): 1 or 0
fg_cuota(detalle) == IF contains(<<"C", "U", "O", "T", "A">>, upper(detalle)) THEN 1 ELSE 0

\* Line 137: the VALOR column after convert_amount
converted(raw) ==
    [k \in 1..Len(raw) |->
        [FECHA |-> raw[k].FECHA, LUGAR |-> raw[k].LUGAR, DETALLE |-> raw[k].DETALLE,
         VALOR |-> convert_amount(raw[k].VALOR), src_line |-> raw[k].src_line]]

\* Line 138: the rows the validator keeps, in their order
validated(rows) == SelectSeq(rows, transaction_validator)

\* Lines 139-145: the columns FG_CUOTA, N_CUOTA, CUOTAS_TOT and GRUPO
with_columns(rows) ==
    [k \in 1..Len(rows) |->
        LET r == rows[k]
            fg == fg_cuota(r.DETALLE)
            cuotas == IF fg = 1 THEN struct_cuotas(r.DETALLE) ELSE <<Null, Null>>
        IN  [FECHA |-> r.FECHA, LUGAR |-> r.LUGAR, DETALLE |-> r.DETALLE,
             VALOR |-> r.VALOR, FG_CUOTA |-> fg,
             N_CUOTA |-> cuotas[1], CUOTAS_TOT |-> cuotas[2],
             GRUPO |-> assign_group(r.DETALLE), src_line |-> r.src_line]]

\* The dtype Series.apply infers for the VALOR column: float64 (None becomes
\* NaN) as soon as one amount parses, object (None kept) when none does.
inferred_dtype(rows) ==
    IF \E k \in 1..Len(rows) : rows[k].VALOR # Null THEN "float64" ELSE "object"

\* ------------------------------------------------------ transaction_resume

\* A missing amount adds nothing to a sum: groupby().sum() skips NaN and None.
amount_or_zero(v) == IF v = Null THEN 0 ELSE v[1]

\* The sum of column VALOR over the rows of group g
RECURSIVE group_sum(_, _)
group_sum(df, g) ==
    IF df = <<>> THEN 0
    ELSE (IF Head(df).GRUPO = g THEN amount_or_zero(Head(df).VALOR) ELSE 0)
         + group_sum(Tail(df), g)

\* The keys when rows without amount are dropped before grouping: a variant
\* of resume_groups.
resume_groups_dropna(df) == {df[k].GRUPO : k \in {j \in 1..Len(df) : df[j].VALOR # Null}}

\* The keys of groupby('GRUPO'): every value of the column
resume_groups(df) == {df[k].GRUPO : k \in 1..Len(df)}

\* sort_values('VALOR', ascending=False): the default sort is not stable, so
\* groups with equal sums may come in any order.
sort_orders(df) ==
    LET gs == resume_groups(df)
        n == Cardinality(gs)
    IN  {ord \in [1..n -> gs] :
            /\ \A a, b \in 1..n : a # b => ord[a] # ord[b]
            /\ \A a \in 1..(n - 1) : group_sum(df, ord[a]) >= group_sum(df, ord[a + 1])}

\* VALOR / VALOR.sum() rounded to two decimals, in hundredths; a float
\* division by zero gives nan or an infinity and raises nothing.
percentage(v, total) ==
    IF total > 0 THEN [kind |-> "number", v |-> RoundHalfEven(100 * v, total)]
    ELSE IF total < 0 THEN [kind |-> "number", v |-> RoundHalfEven(0 - 100 * v, 0 - total)]
    ELSE IF v > 0 THEN [kind |-> "inf", v |-> 0]
    ELSE IF v < 0 THEN [kind |-> "-inf", v |-> 0]
    ELSE [kind |-> "nan", v |-> 0]

RECURSIVE SumOver(_, _)
SumOver(df, ord) ==
    IF ord = <<>> THEN 0 ELSE group_sum(df, Head(ord)) + SumOver(df, Tail(ord))

\* Lines 164-170 for the order ord the sort left the groups in
resume_rows(df, ord) ==
    [k \in 1..Len(ord) |->
        [GRUPO |-> ord[k],
         VALOR |-> resume_currency_format(group_sum(df, ord[k])),
         PERCENTAGE |-> percentage(group_sum(df, ord[k]), SumOver(df, ord))]]

\* ------------------------------------------------------------- the inputs

\* The most pages a document of several pages has.
MaxPages == 3

\* One-line documents: every line made of one part of each kind.
PlaceParts ==
    { <<>>, <<" ">>, <<"U", "B", "E", "R", " ", "T", "R", "I", "P", " ">>, <<"T", "o", "t", "a", "l", " ", "O", "p", "e", "r", "a", "c", "i", "o", "n", "e", "s", " ">>, <<"$", "5", " ">> }
DateParts ==
    { <<"0", "5", "/", "0", "3", "/", "2", "4">>, <<"0", "5", "/", "0", "3", "/", "2", "0", "2", "4">>, <<"0", "5", "/", "0", "3">> }
DetailParts ==
    { <<" ">>, <<" ", "V", "I", "A", "J", "E", " ", "A", " ", "C", "A", "S", "A", " ">>, <<" ", "C", "U", "O", "T", "A", " ", "2", "/", "6", " ">>, <<" ", "c", "u", "o", "t", "a", " ", "0", "/", "6", " ">>,
      <<" ", "C", "U", "O", "T", "A", " ", "1", "0", "0", "/", "1", "2", " ">>, <<" ", "C", "U", "O", "T", "A", " ", "3", " ">>, <<" ", "C", "O", "M", "P", "R", "A", " ", "1", "/", "3", " ">>,
      <<" ", "T", "A", "X", "I", " ", "U", "B", "E", "R", " ", "E", "A", "T", "S", " ">>, <<" ", "V", "E", "N", "C", "E", " ", "0", "1", "/", "0", "4", "/", "2", "4", " ">>, <<" ", "M", "O", "N", "T", "O", " ", "F", "A", "C", "T", "U", "R", "A", "D", "O", " ">> }
AmountParts ==
    { <<>>, <<"$", "4", ".", "5", "0", "0">>, <<"$", "1", "3", ".", "8", "5", "9", ",", "0", "0">>, <<"$", " ", "-", "1", "0", "0">>, <<"$", EnDash, "4", ".", "5", "0", "0">>, <<"$", "A", "B", "C">> }
TailParts ==
    { <<>>, <<" ", "$">> }
StatementLines ==
    { a \o b \o c \o d \o e :
        a \in PlaceParts, b \in DateParts, c \in DetailParts,
        d \in AmountParts, e \in TailParts }

\* Documents of several pages: what extract_text gets from each page, the
\* empty string for a page without text.
PageTexts ==
    { <<>>,
      <<"0", "5", "/", "0", "3", "/", "2", "4", " ", "U", "B", "E", "R", " ", "E", "A", "T", "S", " ", "$", "2", ".", "0", "0", "0">>,
      <<"0", "5", "/", "0", "3", "/", "2", "4", " ", "T", "A", "X", "I", " ", "$", "2", ".", "0", "0", "0">>,
      <<"0", "5", "/", "0", "3", "/", "2", "4", " ", "N", "E", "T", "F", "L", "I", "X", " ", "$", EnDash, "1", "0", "0">>,
      <<"T", "O", "T", "A", "L", " ", "O", "P", "E", "R", "A", "C", "I", "O", "N", "E", "S", " ", "0", "5", "/", "0", "3", "/", "2", "4", " ", "$", "1", ".", "0", "0", "0", ".", "0", "0", "0">>,
      <<"E", "S", "T", "A", "D", "O", " ", "D", "E", " ", "C", "U", "E", "N", "T", "A", NL, "0", "5", "/", "0", "3", "/", "2", "4", " ", "J", "U", "M", "B", "O", " ", "$", "1", "3", ".", "8", "5", "9", ",", "5", "0">> }

Documents ==
    {<<l>> : l \in StatementLines}
    \cup UNION {[1..n -> PageTexts] : n \in 0..MaxPages}

\* ---------------------------------------------------------- state machine

VARIABLES
    pages,          \* the text pdfplumber extracts from each page of the file
    text,           \* self.text
    lines,          \* the lines of the text, line 115
    i,              \* how many lines the loop of struct_text has read
    transactions,   \* self.transactions
    df_o,           \* self.df_o
    valor_dtype,    \* the dtype of df_o["VALOR"]
    df_resume,      \* self.df_resume
    pc,             \* the method __new__ is in, or how it ended
    error           \* the exception that ended it

vars == <<pages, text, lines, i, transactions, df_o, valor_dtype, df_resume, pc, error>>

\* __new__, lines 24-30
Init ==
    /\ pages \in Documents
    /\ text = <<>>
    /\ lines = <<>>
    /\ i = 0
    /\ transactions = <<>>
    /\ df_o = <<>>
    /\ valor_dtype = "none"
    /\ df_resume = <<>>
    /\ pc = "extract_text"
    /\ error = "none"

RECURSIVE joined(_)
joined(ps) ==
    IF ps = <<>> THEN <<>>
    ELSE (IF Head(ps) # <<>> THEN Head(ps) \o <<NL>> ELSE <<>>) \o joined(Tail(ps))

\* extract_text: the text of every page that has some, a line break after
\* each; then struct_text splits it into lines and enters its loop.
ExtractText ==
    /\ pc = "extract_text"
    /\ text' = joined(pages)
    /\ lines' = splitlines(text')
    /\ pc' = "struct_text"
    /\ UNCHANGED <<pages, i, transactions, df_o, valor_dtype, df_resume, error>>

\* struct_text, lines 119-134: one line of the loop
StructLine ==
    /\ pc = "struct_text"
    /\ i < Len(lines)
    /\ transactions' = transactions \o classify_line(lines[i + 1], i + 1)
    /\ i' = i + 1
    /\ UNCHANGED <<pages, text, lines, df_o, valor_dtype, df_resume, pc, error>>

\* struct_text, lines 136-147, when the validator keeps a row
StructTextReturn ==
    /\ pc = "struct_text"
    /\ i = Len(lines)
    /\ validated(converted(transactions)) # <<>>
    /\ df_o' = with_columns(validated(converted(transactions)))
    /\ valor_dtype' = inferred_dtype(converted(transactions))
    /\ pc' = "transaction_resume"
    /\ UNCHANGED <<pages, text, lines, i, transactions, df_resume, error>>

\* struct_text, lines 136-140, when no row is left: on a frame without rows
\* DataFrame.apply(..., result_type='expand') returns the frame itself, five
\* columns, and assigning it to the two columns N_CUOTA and CUOTAS_TOT raises
\* ValueError("Columns must be same length as key").
StructTextRaise ==
    /\ pc = "struct_text"
    /\ i = Len(lines)
    /\ validated(converted(transactions)) = <<>>
    /\ df_o' = <<>>
    /\ valor_dtype' = inferred_dtype(converted(transactions))
    /\ pc' = "raised"
    /\ error' = "ValueError"
    /\ UNCHANGED <<pages, text, lines, i, transactions, df_resume>>

\* transaction_resume, and the return of __new__
TransactionResume ==
    /\ pc = "transaction_resume"
    /\ valor_dtype = "float64"
    /\ \E ord \in sort_orders(df_o) : df_resume' = resume_rows(df_o, ord)
    /\ pc' = "returned"
    /\ UNCHANGED <<pages, text, lines, i, transactions, df_o, valor_dtype, error>>

\* transaction_resume when no amount of the document parsed: the column
\* VALOR holds only None and has dtype object, groupby().sum() gives the
\* integer 0 for every group, and line 165 divides 0 by 0 as Python objects:
\* ZeroDivisionError.  self.df_resume is then the frame of line 164.
TransactionResumeRaise ==
    /\ pc = "transaction_resume"
    /\ valor_dtype = "object"
    /\ \E ord \in sort_orders(df_o) :
           df_resume' = [k \in 1..Len(ord) |-> [GRUPO |-> ord[k], VALOR |-> 0]]
    /\ pc' = "raised"
    /\ error' = "ZeroDivisionError"
    /\ UNCHANGED <<pages, text, lines, i, transactions, df_o, valor_dtype>>

Next ==
    \/ ExtractText
    \/ StructLine
    \/ StructTextReturn
    \/ StructTextRaise
    \/ TransactionResume
    \/ TransactionResumeRaise

Spec == Init /\ [][Next]_vars

\* ------------------------------------------------------------- the claims

\* struct_text has built the table: its rows are final.
TableBuilt == pc \in {"transaction_resume", "returned", "raised"}

Rows == {df_o[k] : k \in 1..Len(df_o)}
RawRows == {transactions[k] : k \in 1..Len(transactions)}

\* --- C1

\* The entries of group_dict whose keyword is a substring of d uppercased
Hits(d) ==
    LET u == upper(d)
    IN  {k \in 1..Len(group_dict) : contains(group_dict[k][1], u)}
FirstHit(d) == CHOOSE k \in Hits(d) : \A j \in Hits(d) : k <= j
\* The positions at which keyword k occurs in d uppercased
Occurrences(d, k) ==
    {p \in 0..Len(d) : Slice(upper(d), p, p + Len(group_dict[k][1])) = group_dict[k][1]}

HasDate(l) ==
    \E p \in 0..(Len(l) - 8) :
        /\ \A k \in {0, 1, 3, 4, 6, 7} : IsDigit(Ch(l, p + k))
        /\ Ch(l, p + 2) = "/"
        /\ Ch(l, p + 5) = "/"
HasDollar(l) == \E p \in 0..(Len(l) - 1) : Ch(l, p) = "$"

\* C2: every raw tuple and every row of the table comes from one line of the
\* text, a line that holds a "$" and a date, and carries the date of that
\* line; no line gives two rows: the rows come from distinct lines, in the
\* order of the lines.
C2_RowsComeFromQualifyingLines ==
    /\ \A k \in 1..Len(transactions) :
          LET t == transactions[k]
          IN  /\ t.src_line \in 1..i
              /\ HasDollar(lines[t.src_line])
              /\ HasDate(lines[t.src_line])
              /\ contains(t.FECHA, lines[t.src_line])
              /\ HasDate(t.FECHA)
    /\ \A j, k \in 1..Len(transactions) :
          j < k => transactions[j].src_line < transactions[k].src_line
    /\ \A j, k \in 1..Len(df_o) : j < k => df_o[j].src_line < df_o[k].src_line
    /\ \A r \in Rows :
          \E t \in RawRows : t.src_line = r.src_line /\ t.FECHA = r.FECHA

\* A finished run over several lines in which a line without "$" gave no
\* row and a later line gave one.
C2_Witness ==
    /\ pc = "returned"
    /\ \E a, b \in 1..Len(lines) :
          /\ a < b
          /\ ~HasDollar(lines[a])
          /\ \A r \in Rows : r.src_line # a
          /\ \E r \in Rows : r.src_line = b

\* --- C3

\* The uppercased place and description, a space between them, hold one of
\* the exclusion keywords.
Excluded(place, detalle) ==
    \E k \in 1..Len(exclude_keywords) :
        contains(exclude_keywords[k], upper(place \o <<" ">> \o detalle))

\* The amounts of the rows of category g that hold no exclusion keyword
RECURSIVE KeptSum(_, _)
KeptSum(rows, g) ==
    IF rows = <<>> THEN 0
    ELSE (IF /\ Head(rows).GRUPO = g
             /\ ~Excluded(Head(rows).LUGAR, Head(rows).DETALLE)
             /\ Head(rows).VALOR # Null
          THEN Head(rows).VALOR[1] ELSE 0)
         + KeptSum(Tail(rows), g)

\* C3: no row of the table holds an exclusion keyword in its uppercased place
\* and description, and every sum of the summary is a sum over rows that
\* hold none.
C3_NoExcludedRow ==
    /\ TableBuilt => \A r \in Rows : ~Excluded(r.LUGAR, r.DETALLE)
    /\ pc = "returned" =>
          \A k \in 1..Len(df_resume) :
              df_resume[k].VALOR =
                  resume_currency_format(KeptSum(df_o, df_resume[k].GRUPO))

\* A finished run that read a line holding an exclusion keyword and kept
\* another line.
C3_Witness ==
    /\ pc = "returned"
    /\ \E t \in RawRows : Excluded(t.LUGAR, t.DETALLE)
    /\ Rows # {}

\* --- C4

\* The trimmed text before the first date of the line a row comes from
TextBeforeDate(r) ==
    strip(Slice(lines[r.src_line], 0, date_pattern_search(lines[r.src_line]).start))

\* C4: the place of every row is the trimmed text before the first date of
\* its line, or "SIN LUGAR" when that text is empty; no place is empty.
C4_PlaceIsTextOrSentinel ==
    TableBuilt =>
        \A r \in Rows :
            /\ r.LUGAR # <<>>
            /\ r.LUGAR = IF TextBeforeDate(r) = <<>> THEN SIN_LUGAR
                         ELSE TextBeforeDate(r)

\* --- C5

\* "CUOTA" in the description, in any case
MentionsCuota(d) ==
    \E p \in 0..(Len(d) - 5) : upper(Slice(d, p, p + 5)) = <<"C", "U", "O", "T", "A">>

\* d without its trailing whitespace
RTrimmed(d) ==
    LET keep == {n \in 1..Len(d) : ~IsSpace(d[n])}
    IN  IF keep = {} THEN <<>>
        ELSE SubSeq(d, 1, CHOOSE n \in keep : \A m \in keep : n >= m)

\* d ends, trailing whitespace aside, with 1-2 digits, "/", 1-2 digits
EndsWithInstallment(d) ==
    LET t == RTrimmed(d)
        n == Len(t)
    IN  \E a, b \in {1, 2} :
            /\ n >= a + b + 1
            /\ \A k \in 1..b : IsDigit(t[n - b + k])
            /\ t[n - b] = "/"
            /\ \A k \in 1..a : IsDigit(t[n - b - k])

\* C5: in every row N_CUOTA and CUOTAS_TOT are both present or both absent;
\* absent when the description does not mention "CUOTA" in any case; when it
\* does, present exactly when the description ends with digits/digits.
C5_InstallmentColumns ==
    TableBuilt =>
        \A r \in Rows :
            /\ r.N_CUOTA = Null <=> r.CUOTAS_TOT = Null
            /\ ~MentionsCuota(r.DETALLE) => r.N_CUOTA = Null /\ r.CUOTAS_TOT = Null
            /\ MentionsCuota(r.DETALLE) =>
                  (r.N_CUOTA # Null <=> EndsWithInstallment(r.DETALLE))

\* A row that mentions "cuota" in lower case and has both counts, next to
\* the cases the run also reaches: "CUOTA" without a count, a count without
\* "CUOTA".
C5_Witness ==
    /\ TableBuilt
    /\ \E r \in Rows :
          /\ contains(<<"c", "u", "o", "t", "a">>, r.DETALLE)
          /\ r.N_CUOTA # Null
          /\ r.CUOTAS_TOT # Null

\* --- C6

\* C6, as claimed: the counts, when present, are both at least 1.
C6_InstallmentsPositive ==
    TableBuilt =>
        \A r \in Rows :
            r.N_CUOTA # Null => r.N_CUOTA[1] >= 1 /\ r.CUOTAS_TOT[1] >= 1

\* C6, amended: the counts, when present, are both integers from 0 to 99:
\* what one or two digits spell, zero included.
C6_InstallmentsTwoDigits ==
    TableBuilt =>
        \A r \in Rows :
            r.N_CUOTA # Null =>
                /\ r.N_CUOTA[1] \in 0..99
                /\ r.CUOTAS_TOT # Null
                /\ r.CUOTAS_TOT[1] \in 0..99

\* A row whose installment index is present and zero.
C6_Witness ==
    /\ TableBuilt
    /\ \E r \in Rows : r.N_CUOTA = Some(0) /\ r.CUOTAS_TOT # Null

\* --- C7

\* The raw tuples whose amount string does not parse and which the
\* validator accepts
NullAmountRows ==
    {t \in RawRows : convert_amount(t.VALOR) = Null /\ transaction_validator(t)}

\* C7: an amount string that does not parse gives a null amount and nothing
\* else: the row is in the table with a null amount when the validator
\* accepts it, every line of the text has been read, and the run does not
\* end with an exception.
C7_NullAmountNeverAborts ==
    (TableBuilt /\ NullAmountRows # {}) =>
        /\ i = Len(lines)
        /\ \A t \in NullAmountRows :
              \E r \in Rows : r.src_line = t.src_line /\ r.VALOR = Null
        /\ pc # "raised"

\* --- C8

\* The text, which is not empty, has been read to its end and gave no row
\* the validator accepts.
NoValidRows ==
    /\ pc \in {"struct_text", "transaction_resume", "returned", "raised"}
    /\ text # <<>>
    /\ i = Len(lines)
    /\ validated(converted(transactions)) = <<>>

\* C8: a text without a valid row is no error: the run raises nothing, and
\* ends with an empty table and an empty summary.
C8_NoRowsIsNotAnError ==
    NoValidRows =>
        /\ pc # "raised"
        /\ pc = "returned" => df_o = <<>> /\ df_resume = <<>>

\* --- C9

\* The sum of the amounts present in the rows of category g, row by row
CategoryTotal(g) ==
    LET f[k \in 0..Len(df_o)] ==
            IF k = 0 THEN 0
            ELSE f[k - 1] + (IF df_o[k].GRUPO = g /\ df_o[k].VALOR # Null
                             THEN df_o[k].VALOR[1] ELSE 0)
    IN  f[Len(df_o)]

AmountStarts(l) == {p \in 0..(Len(l) - 1) : amount_match_at(l, p).start >= 0}
\* The positions of the line that hold a "$"
Dollars(l) == {p \in 0..(Len(l) - 1) : Ch(l, p) = "$"}
Greatest(S) == CHOOSE p \in S : \A q \in S : p >= q

\* C10: the amount string of every raw tuple is what the amount pattern
\* captures at the last position of its line where the pattern matches; its
\* description is the trimmed text from the end of the first date of the
\* line to the last "$" of the line, whether or not an amount starts there,
\* and is empty when that "$" comes before the end of the date.
C10_LastAmountLastDollar ==
    \A t \in RawRows :
        LET l == lines[t.src_line]
            date_end == date_pattern_search(l).end
            m == amount_match_at(l, Greatest(AmountStarts(l)))
        IN  /\ AmountStarts(l) # {}
            /\ t.VALOR = Slice(l, m.start, m.end)
            /\ t.DETALLE = strip(Slice(l, date_end, Greatest(Dollars(l))))
            /\ Greatest(Dollars(l)) < date_end => t.DETALLE = <<>>

\* A raw tuple from a line whose last "$" starts no amount: the description
\* runs up to it and holds the amount that was taken.
C10_Witness ==
    \E t \in RawRows :
        LET l == lines[t.src_line]
        IN  /\ Greatest(Dollars(l)) \notin AmountStarts(l)
            /\ contains(<<"$">>, t.DETALLE)

====
